---- MODULE Spec2Model ----
\* Edit-history and mutation-consistency engine of peakdet's interactive
\* editor (src/peakdet/editor.py, class _PhysioEditor).
\*
\* Sample indices are 0-based as in the source; TLA+ sequences are 1-based, so
\* sample i of the signal is data[i + 1] and array position k is Seq[k + 1].
EXTENDS Integers, Sequences, FiniteSets, TLC

\* ---------------------------------------------------------------- bounds
NSamp == 3          \* number of samples of the signal
MaxVal == 1         \* sample values are 0..MaxVal
MaxInitPeaks == 1   \* number of peaks detected before the editor opens
MaxEdits == 3       \* edits recorded in one session
Res == 1            \* selection coordinates are multiples of 1/Res second

\* ------------------------------------------------------ program constants
Fs == 1             \* fs = 1 if data.fs is None

VARIABLES
    data,        \* self.data.data: the signal samples
    metaPeaks,   \* self.data._metadata['peaks']
    metaReject,  \* self.data._metadata['reject']
    troughs,     \* self.data._metadata['troughs']
    history,     \* self.data._history
    rejected,    \* self.rejected
    deleted,     \* self.deleted
    included,    \* self.included
    last,        \* the last event handled and how it ended
    snaps        \* for each edit record on the stack: the state before it

vars == <<data, metaPeaks, metaReject, troughs, history,
          rejected, deleted, included, last, snaps>>

progVars == <<data, metaPeaks, metaReject, troughs, history,
              rejected, deleted, included>>

\* ------------------------------------------------------- array helpers
Range(s) == {s[i] : i \in 1..Len(s)}

IsStrictlyIncreasing(s) == \A i \in 1..(Len(s) - 1) : s[i] < s[i + 1]

\* s[lo:hi] with 0-based, half-open, clipped bounds
Slice(s, lo, hi) ==
    IF lo >= hi THEN <<>>
    ELSE [k \in 1..(hi - lo) |-> s[lo + k]]

\* np.searchsorted(a, v), side='left': the leftmost insertion point of v in
\* the non-decreasing array a, found by binary search
RECURSIVE BinSearch(_, _, _, _)
BinSearch(a, v, lo, hi) ==
    IF lo >= hi THEN lo
    ELSE LET mid == (lo + hi) \div 2
         IN  IF a[mid + 1] < v THEN BinSearch(a, v, mid + 1, hi)
                               ELSE BinSearch(a, v, lo, mid)

SearchSorted(a, v) == BinSearch(a, v, 0, Len(a))

\* the position (0-based) of the last maximum of a non-empty array
ArgMaxLast(a) ==
    CHOOSE k \in 0..(Len(a) - 1) :
        /\ \A j \in 0..(Len(a) - 1) : a[j + 1] <= a[k + 1]
        /\ \A j \in (k + 1)..(Len(a) - 1) : a[j + 1] < a[k + 1]

\* np.argmax(a): position (0-based) of the first maximum of a non-empty array
ArgMax(a) ==
    CHOOSE k \in 0..(Len(a) - 1) :
        /\ \A j \in 0..(Len(a) - 1) : a[j + 1] <= a[k + 1]
        /\ \A j \in 0..(k - 1) : a[j + 1] < a[k + 1]

\* position (0-based) of the first minimum of a non-empty array
ArgMin(a) ==
    CHOOSE k \in 0..(Len(a) - 1) :
        /\ \A j \in 0..(Len(a) - 1) : a[j + 1] >= a[k + 1]
        /\ \A j \in 0..(k - 1) : a[j + 1] > a[k + 1]

\* a with value v put before position pos (0-based): np.insert(a, pos, v)
InsertAt(a, pos, v) ==
    SubSeq(a, 1, pos) \o <<v>> \o SubSeq(a, pos + 1, Len(a))

\* a without the element at position pos (0-based): np.delete(a, pos)
DeleteAt(a, pos) ==
    SubSeq(a, 1, pos) \o SubSeq(a, pos + 2, Len(a))

\* the elements of a that satisfy keep, in order
RECURSIVE Filter(_, _)
Filter(a, keep) ==
    IF a = <<>> THEN <<>>
    ELSE (IF Head(a) \in keep THEN <<Head(a)>> ELSE <<>>) \o Filter(Tail(a), keep)

\* the sorted sequence of the members of a finite set of integers
RECURSIVE SortedSeq(_)
SortedSeq(S) ==
    IF S = {} THEN <<>>
    ELSE LET m == CHOOSE x \in S : \A y \in S : x <= y
         IN  <<m>> \o SortedSeq(S \ {m})

\* np.setdiff1d(a, b): the sorted, unique values of a that are not in b
SetDiff1d(a, b) == SortedSeq(Range(a) \ Range(b))

\* np.insert(a, np.searchsorted(a, vals), vals): every value goes before the
\* position found for it in the ORIGINAL array a; vals is sorted
RECURSIVE InsertSorted(_, _, _)
InsertSorted(a, vals, k) ==
    IF k = 0 THEN a
    ELSE InsertSorted(InsertAt(a, SearchSorted(a, vals[k]), vals[k]), vals, k - 1)

\* --------------------------------------------------- the signal object
\* self.time = np.arange(0, len(data.data) / fs, 1 / fs), in units of 1/Res s
Time == [k \in 1..NSamp |-> ((k - 1) * Res) \div Fs]

\* Physio.peaks: the peaks of the metadata that are not marked as rejected
VisiblePeaks(mPeaks, mReject) ==
    Filter(mPeaks, Range(mPeaks) \ Range(mReject))

\* utils.check_troughs: one trough per pair of successive peaks, the first
\* minimum of the signal between them; nothing between two equal peaks
RECURSIVE TroughsFrom(_, _, _)
TroughsFrom(sig, pk, f) ==
    IF f >= Len(pk) THEN <<>>
    ELSE (IF pk[f] < pk[f + 1]
          THEN <<pk[f] + ArgMin(Slice(sig, pk[f], pk[f + 1]))>>
          ELSE <<>>) \o TroughsFrom(sig, pk, f + 1)

CheckTroughs(sig, pk) == TroughsFrom(sig, pk, 1)

\* one record of the history: the operation's name and its argument
Rec(func, payload) == [func |-> func, payload |-> payload]

\* operations.reject_peaks(data, remove)
RejectPeaks(st, remove) ==
    LET mr == st.metaReject \o remove
    IN  [metaPeaks  |-> st.metaPeaks,
         metaReject |-> mr,
         troughs    |-> CheckTroughs(st.data, VisiblePeaks(st.metaPeaks, mr)),
         history    |-> Append(st.history, Rec("reject_peaks", remove))]

\* operations.delete_peaks(data, remove)
DeletePeaks(st, remove) ==
    LET mp == SetDiff1d(st.metaPeaks, remove)
    IN  [metaPeaks  |-> mp,
         metaReject |-> st.metaReject,
         troughs    |-> CheckTroughs(st.data, VisiblePeaks(mp, st.metaReject)),
         history    |-> Append(st.history, Rec("delete_peaks", remove))]

\* operations.add_peaks(data, add)
AddPeaks(st, add) ==
    LET mp == InsertAt(st.metaPeaks, SearchSorted(st.metaPeaks, add), add)
    IN  [metaPeaks  |-> mp,
         metaReject |-> st.metaReject,
         troughs    |-> CheckTroughs(st.data, VisiblePeaks(mp, st.metaReject)),
         history    |-> Append(st.history, Rec("add_peaks", <<add>>))]

\* ------------------------------------------------------ the editor
\* the editor object: the Physio object it holds and its three sets
Ed == [data |-> data, metaPeaks |-> metaPeaks, metaReject |-> metaReject,
       troughs |-> troughs, history |-> history,
       rejected |-> rejected, deleted |-> deleted, included |-> included]

\* self.data.peaks
Peaks == VisiblePeaks(metaPeaks, metaReject)

\* the peaks, the troughs and the three sets of an editor
SnapshotOf(ed) ==
    [peaks |-> VisiblePeaks(ed.metaPeaks, ed.metaReject), troughs |-> ed.troughs,
     rejected |-> ed.rejected, deleted |-> ed.deleted, included |-> ed.included]

Snapshot == SnapshotOf(Ed)

\* the mapping with the two ends of the selection exchanged
MapSelectionSwapped(xmin, xmax, timeAxis, pk) ==
    LET tmin == SearchSorted(timeAxis, xmax)
        tmax == SearchSorted(timeAxis, xmin)
    IN  [tmin |-> tmin, tmax |-> tmax,
         pmin |-> SearchSorted(pk, tmin), pmax |-> SearchSorted(pk, tmax)]

\* tmin, tmax = np.searchsorted(self.time, (xmin, xmax))
\* pmin, pmax = np.searchsorted(self.data.peaks, (tmin, tmax))
MapSelection(xmin, xmax, timeAxis, pk) ==
    LET tmin == SearchSorted(timeAxis, xmin)
        tmax == SearchSorted(timeAxis, xmax)
    IN  [tmin |-> tmin, tmax |-> tmax,
         pmin |-> SearchSorted(pk, tmin), pmax |-> SearchSorted(pk, tmax)]

\* the window a mode works on is empty: the sample window [tmin, tmax) of an
\* insert (tmin != tmax is the test of the source), the peak window
\* [pmin, pmax) of a reject or a delete, np.arange(pmin, pmax)
WindowEmpty(sel, insert) ==
    IF insert THEN sel.tmin = sel.tmax ELSE sel.pmin >= sel.pmax

\* the history entries undo() reverses
Relevant == {"reject_peaks", "delete_peaks", "add_peaks"}

\* an event as the handlers saw it: the handler, its mode, whether the
\* selection was empty or inverted (xmin >= xmax), whether the window the
\* mode works on was empty, the history entry it appended or popped, how the
\* call ended, the exception it raised and the redraws it emitted (for each
\* call of plot_signals its argument: TRUE keeps the view bounds)
Event(op, reject, insert, inverted, empty, kind, outcome, err, redraws) ==
    [op |-> op, reject |-> reject, insert |-> insert, inverted |-> inverted,
     empty |-> empty, kind |-> kind, outcome |-> outcome, err |-> err,
     redraws |-> redraws]

\* the calls of plot_signals a handler makes on the path that ends in outcome:
\* on_edit redraws before each return and at its end, undo() at its end only
RedrawsOf(op, outcome) ==
    IF op = "edit" /\ outcome \in {"noop", "mutated"} THEN <<TRUE>>
    ELSE IF op = "undo" /\ outcome = "undone" THEN <<TRUE>>
    ELSE <<>>

\* the keys on_key is bound to
Keys == {"ctrl+z", "super+d", "ctrl+q"}

\* on_key: the command a key runs
KeyCommand(key) ==
    IF key \in {"ctrl+z", "super+d"} THEN "undo"
    ELSE IF key \in {"ctrl+q", "super+d"} THEN "quit"
    ELSE "none"

\* an index deleted in an earlier session: the first sample that is no peak
PriorDeleted(mPeaks) ==
    CHOOSE q \in (0..(NSamp - 1)) \ Range(mPeaks) :
        \A x \in (0..(NSamp - 1)) \ Range(mPeaks) : q <= x

\* the histories the data can come with: none, or an earlier session's
\* delete followed by a new peak detection
InitHistories(mPeaks) ==
    {<<>>,
     <<Rec("delete_peaks", <<PriorDeleted(mPeaks)>>), Rec("peakfind_physio", <<>>)>>}

\* the positions a selection can start or end at
Xs == (0 - 1)..((NSamp - 1) * Res + 1)

Signals == [1..NSamp -> 0..MaxVal]

\* strictly increasing sequences of at most MaxInitPeaks sample indices
InitPeaks ==
    {SortedSeq(S) : S \in {T \in SUBSET (0..(NSamp - 1)) : Cardinality(T) <= MaxInitPeaks}}

Init ==
    /\ data \in Signals
    /\ metaPeaks \in InitPeaks
    /\ metaReject = <<>>
    /\ troughs = CheckTroughs(data, metaPeaks)
    /\ history \in InitHistories(metaPeaks)
    /\ rejected = {} /\ deleted = {} /\ included = {}
    /\ last = Event("init", FALSE, FALSE, FALSE, FALSE, "none", "init", "none",
                    <<FALSE>>)   \* self.plot_signals(False)
    /\ snaps = <<>>

\* the result of a handler: the editor afterwards, how the call ended
\* ("error": raised before anything changed, "noop": returned without a
\* change, "mutated"/"undone": ran to its end, "partial": raised after it
\* changed something) and the exception it raised
Result(ed, outcome, err) == [ed |-> ed, outcome |-> outcome, err |-> err]

\* the editor with the Physio object a Marker Mutation Service call returned
WithData(ed, st) ==
    [ed EXCEPT !.metaPeaks = st.metaPeaks, !.metaReject = st.metaReject,
               !.troughs = st.troughs, !.history = st.history]

\* on_edit in insert mode
EditInsert(ed, sel) ==
    IF sel.tmin /= sel.tmax /\ Slice(ed.data, sel.tmin, sel.tmax) = <<>>
    THEN Result(ed, "error", "ValueError")  \* np.argmax of an empty slice
    ELSE LET tmp == IF sel.tmin /= sel.tmax
                    THEN ArgMax(Slice(ed.data, sel.tmin, sel.tmax)) ELSE 0
             newpeak == sel.tmin + tmp
         IN  IF newpeak = sel.tmin
             THEN Result(ed, "noop", "none")
             ELSE Result(WithData([ed EXCEPT !.included = @ \cup {newpeak}],
                                  AddPeaks(ed, newpeak)),
                         "mutated", "none")

\* on_edit in reject or delete mode without its test of an empty window
EditRemoveUnchecked(ed, sel, reject) ==
    LET chosen == Slice(VisiblePeaks(ed.metaPeaks, ed.metaReject), sel.pmin, sel.pmax)
    IN  IF reject
        THEN Result(WithData([ed EXCEPT !.rejected = @ \cup Range(chosen)],
                             RejectPeaks(ed, chosen)),
                    "mutated", "none")
        ELSE Result(WithData([ed EXCEPT !.deleted = @ \cup Range(chosen)],
                             DeletePeaks(ed, chosen)),
                    "mutated", "none")

\* on_edit in reject or delete mode taking the window one position too late
EditRemoveOffByOne(ed, sel, reject) ==
    LET pk == VisiblePeaks(ed.metaPeaks, ed.metaReject)
        chosen == Slice(pk, sel.pmin + 1, sel.pmax)
    IN  IF sel.pmin >= sel.pmax
        THEN Result(ed, "noop", "none")
        ELSE IF reject
        THEN Result(WithData([ed EXCEPT !.rejected = @ \cup Range(chosen)],
                             RejectPeaks(ed, chosen)),
                    "mutated", "none")
        ELSE Result(WithData([ed EXCEPT !.deleted = @ \cup Range(chosen)],
                             DeletePeaks(ed, chosen)),
                    "mutated", "none")

\* on_edit in reject (reject = TRUE) or delete (reject = FALSE) mode
EditRemove(ed, sel, reject) ==
    LET pk == VisiblePeaks(ed.metaPeaks, ed.metaReject)
        chosen == Slice(pk, sel.pmin, sel.pmax)   \* self.data.peaks[bad]
    IN  IF Len(chosen) = 0
        THEN Result(ed, "noop", "none")
        ELSE IF reject
        THEN Result(WithData([ed EXCEPT !.rejected = @ \cup Range(chosen)],
                             RejectPeaks(ed, chosen)),
                    "mutated", "none")
        ELSE Result(WithData([ed EXCEPT !.deleted = @ \cup Range(chosen)],
                             DeletePeaks(ed, chosen)),
                    "mutated", "none")

\* on_edit without its test of reject and insert
EditStepUnchecked(ed, xmin, xmax, reject, insert) ==
    LET sel == MapSelection(xmin, xmax, Time,
                            VisiblePeaks(ed.metaPeaks, ed.metaReject))
    IN  IF insert THEN EditInsert(ed, sel) ELSE EditRemove(ed, sel, reject)

\* on_edit(xmin, xmax, reject=..., insert=...)
EditStep(ed, xmin, xmax, reject, insert) ==
    IF reject /\ insert
    THEN Result(ed, "error", "ValueError")
    ELSE LET sel == MapSelection(xmin, xmax, Time,
                                 VisiblePeaks(ed.metaPeaks, ed.metaReject))
         IN  IF insert THEN EditInsert(ed, sel)
                       ELSE EditRemove(ed, sel, reject)

\* undo() of a reject_peaks entry that forgets self.rejected
UndoRejectMetaOnly(ed, remove) ==
    [ed EXCEPT !.metaReject = SetDiff1d(@, remove)]

\* undo() of a reject_peaks entry
UndoReject(ed, remove) ==
    [ed EXCEPT !.metaReject = SetDiff1d(@, remove),
               !.rejected = @ \ Range(remove)]

\* undo() of a delete_peaks entry
UndoDelete(ed, remove) ==
    [ed EXCEPT !.metaPeaks = InsertSorted(@, remove, Len(remove)),
               !.deleted = @ \ Range(remove)]

\* the troughs undo() recomputes at its end
Retrough(ed) ==
    [ed EXCEPT !.troughs =
        CheckTroughs(ed.data, VisiblePeaks(ed.metaPeaks, ed.metaReject))]

\* undo() of an add_peaks entry; np.delete with a position past the end
\* raises IndexError or, in older numpy, warns and deletes nothing
UndoAdd(ed, add, oobRaises) ==
    LET pos == SearchSorted(ed.metaPeaks, add)
        oob == pos >= Len(ed.metaPeaks)
        e1  == IF oob THEN ed ELSE [ed EXCEPT !.metaPeaks = DeleteAt(@, pos)]
    IN  IF oob /\ oobRaises THEN Result(ed, "partial", "IndexError")
        ELSE IF add \notin ed.included THEN Result(e1, "partial", "KeyError")
        ELSE Result(Retrough([e1 EXCEPT !.included = @ \ {add}]), "undone", "none")

\* self.data._history.pop() drops the first entry instead of the last
PopFirst(h) == SubSeq(h, 2, Len(h))

\* the history after self.data._history.pop()
Pop(h) == SubSeq(h, 1, Len(h) - 1)

\* undo() popping whatever entry is on top
UndoStepPopsAny(ed, oobRaises) ==
    IF ed.history = <<>>
    THEN Result(ed, "error", "IndexError")
    ELSE LET top == ed.history[Len(ed.history)]
             e0  == [ed EXCEPT !.history = Pop(@)]
         IN  IF top.func \notin Relevant THEN Result(e0, "noop", "none")
             ELSE IF top.func = "reject_peaks"
             THEN Result(Retrough(UndoReject(e0, top.payload)), "undone", "none")
             ELSE IF top.func = "delete_peaks"
             THEN Result(Retrough(UndoDelete(e0, top.payload)), "undone", "none")
             ELSE UndoAdd(e0, top.payload[1], oobRaises)

\* undo()
UndoStep(ed, oobRaises) ==
    IF ed.history = <<>>
    THEN Result(ed, "error", "IndexError")   \* self.data._history[-1]
    ELSE LET top == ed.history[Len(ed.history)]
             e0  == [ed EXCEPT !.history = Pop(@)]
         IN  IF top.func \notin Relevant THEN Result(ed, "noop", "none")
             ELSE IF top.func = "reject_peaks"
             THEN Result(Retrough(UndoReject(e0, top.payload)), "undone", "none")
             ELSE IF top.func = "delete_peaks"
             THEN Result(Retrough(UndoDelete(e0, top.payload)), "undone", "none")
             ELSE UndoAdd(e0, top.payload[1], oobRaises)

\* ------------------------------------------------------------- actions
Install(ed) ==
    /\ data' = ed.data
    /\ metaPeaks' = ed.metaPeaks
    /\ metaReject' = ed.metaReject
    /\ troughs' = ed.troughs
    /\ history' = ed.history
    /\ rejected' = ed.rejected
    /\ deleted' = ed.deleted
    /\ included' = ed.included

\* every state on the stack stops being the start of a run of edits
Dirty(sn) == [k \in 1..Len(sn) |-> [sn[k] EXCEPT !.clean = FALSE]]

\* plt.close(self.fig): no event reaches a closed figure
Closed == last.op = "quit"

\* the Marker Mutation Service operation of a mode
ServiceOf(reject, insert) ==
    IF insert THEN "add_peaks" ELSE IF reject THEN "reject_peaks" ELSE "delete_peaks"

OnEdit(xmin, xmax, reject, insert) ==
    /\ ~Closed
    /\ Len(snaps) < MaxEdits
    /\ LET r   == EditStep(Ed, xmin, xmax, reject, insert)
           sel == MapSelection(xmin, xmax, Time, Peaks)
       IN  /\ Install(r.ed)
           /\ last' = Event("edit", reject, insert, xmin >= xmax,
                            WindowEmpty(sel, insert),
                            IF r.outcome = "mutated"
                            THEN ServiceOf(reject, insert) ELSE "none",
                            r.outcome, r.err, RedrawsOf("edit", r.outcome))
           /\ snaps' = IF r.outcome = "mutated"
                       THEN Append(IF last.op = "undo" THEN Dirty(snaps) ELSE snaps,
                                   [snap |-> Snapshot, clean |-> TRUE])
                       ELSE Dirty(snaps)

Undo(oobRaises) ==
    /\ ~Closed
    /\ LET r == UndoStep(Ed, oobRaises)
       IN  /\ Install(r.ed)
           /\ last' = Event("undo", FALSE, FALSE, FALSE, FALSE,
                            IF r.outcome \in {"undone", "partial"}
                            THEN history[Len(history)].func ELSE "none",
                            r.outcome, r.err, RedrawsOf("undo", r.outcome))
           /\ snaps' = IF r.outcome \in {"undone", "partial"}
                       THEN SubSeq(snaps, 1, Len(snaps) - 1)
                       ELSE Dirty(snaps)

\* quit()
Quit ==
    /\ UNCHANGED progVars
    /\ last' = Event("quit", FALSE, FALSE, FALSE, FALSE, "none", "noop", "none", <<>>)
    /\ snaps' = Dirty(snaps)

\* on_key(event)
OnKey(key, oobRaises) ==
    /\ ~Closed
    /\ IF KeyCommand(key) = "undo" THEN Undo(oobRaises)
       ELSE IF KeyCommand(key) = "quit" THEN Quit
       ELSE UNCHANGED vars

Next ==
    \/ \E xmin \in Xs, xmax \in Xs, reject \in BOOLEAN, insert \in BOOLEAN :
          OnEdit(xmin, xmax, reject, insert)
    \/ \E oobRaises \in BOOLEAN : Undo(oobRaises)
    \/ \E key \in Keys, oobRaises \in BOOLEAN : OnKey(key, oobRaises)

Spec == Init /\ [][Next]_vars

\* ------------------------------------------------------------- claims
IsEdit(ev) == ev.op = "edit"
IsUndo(ev) == ev.op = "undo"
ValidEdit(ev) == IsEdit(ev) /\ ~(ev.reject /\ ev.insert)
TopSnap == snaps[Len(snaps)]
Top == history[Len(history)]
RecordsOf(func, x) ==
    {i \in 1..Len(history) : history[i].func = func /\ x \in Range(history[i].payload)}

\* C1: N successful edits followed by N undo() calls restore the peaks, the
\* troughs and the three category sets to what they were before the first of
\* the N edits. An entry of snaps is clean while the events since it was
\* pushed are successful edits followed by undo() calls only.
C1_RoundTrip ==
    [][(IsUndo(last') /\ last'.outcome \in {"undone", "partial"}
          /\ snaps /= <<>> /\ TopSnap.clean)
       => Snapshot' = TopSnap.snap]_vars

\* C2: undo() on an empty History Stack changes nothing and raises nothing.
C2_UndoEmptyNoop ==
    [][(IsUndo(last') /\ history = <<>>)
       => (UNCHANGED progVars /\ last'.err = "none")]_vars

\* C3: rejected, deleted and included are pairwise disjoint in every
\* reachable state.
C3_Disjoint ==
    /\ rejected \cap deleted = {}
    /\ rejected \cap included = {}
    /\ deleted \cap included = {}

\* C4: after every operation the peaks sequence is strictly increasing, with
\* no sample index twice.
C4_PeaksStrictlyIncreasing == IsStrictlyIncreasing(Peaks)

\* C5: every index in rejected, deleted or included lies in the payload of
\* exactly one history record of the matching kind still on the stack.
C5_Lockstep ==
    /\ \A x \in rejected : Cardinality(RecordsOf("reject_peaks", x)) = 1
    /\ \A x \in deleted : Cardinality(RecordsOf("delete_peaks", x)) = 1
    /\ \A x \in included : Cardinality(RecordsOf("add_peaks", x)) = 1

\* C6: an undo() whose top record is an edit record removes exactly that
\* record, leaves the records below it as they were, and touches only what
\* that record's kind owns: its own category set loses at most the payload,
\* the two other sets and the metadata of the other kinds stay as they are.
C6_UndoLifo ==
    [][(IsUndo(last') /\ history /= <<>> /\ Top.func \in Relevant)
       => /\ history' = SubSeq(history, 1, Len(history) - 1)
          /\ rejected' = IF Top.func = "reject_peaks"
                         THEN rejected \ Range(Top.payload) ELSE rejected
          /\ deleted' = IF Top.func = "delete_peaks"
                        THEN deleted \ Range(Top.payload) ELSE deleted
          /\ included' = IF Top.func = "add_peaks"
                         THEN included \ Range(Top.payload) ELSE included
          /\ (Top.func = "reject_peaks" => metaPeaks' = metaPeaks)
          /\ (Top.func /= "reject_peaks" => metaReject' = metaReject)]_vars

C6_Witness ==
    /\ IsUndo(last) /\ last.outcome = "undone"
    /\ Len(snaps) = 1
    /\ history /= <<>> /\ Top.func \in Relevant

\* C7: on_edit with reject and insert both set raises its validation error
\* and leaves the peaks, the troughs, the category sets and the History Stack
\* as they were.
C7_InvalidIntent ==
    [][(IsEdit(last') /\ last'.reject /\ last'.insert)
       => (UNCHANGED progVars /\ last'.outcome = "error"
           /\ last'.err = "ValueError")]_vars

C7_Witness ==
    /\ IsEdit(last) /\ last.reject /\ last.insert /\ last.err = "ValueError"
    /\ history /= <<>> /\ Top.func \in Relevant

\* C8: a valid edit whose window is empty (tmin_idx = tmax_idx for an insert,
\* [pmin, pmax) empty for a reject or a delete) changes nothing and appends
\* no history record.
C8_NoopEdit ==
    [][(ValidEdit(last') /\ last'.empty)
       => (UNCHANGED progVars /\ last'.outcome = "noop"
           /\ last'.err = "none")]_vars

C8_Witness ==
    /\ ValidEdit(last) /\ last.empty /\ last.outcome = "noop"
    /\ ~last.insert /\ Len(Peaks) > 0

InBounds(sel, pk) ==
    /\ sel.tmin \in 0..Len(Time) /\ sel.tmax \in 0..Len(Time)
    /\ sel.pmin \in 0..Len(pk) /\ sel.pmax \in 0..Len(pk)

Ordered(sel) == sel.tmin <= sel.tmax /\ sel.pmin <= sel.pmax

\* C9 as stated: for any selection, tmin > tmax included, the mapper returns
\* 0 <= tmin_idx <= tmax_idx <= len(timeAxis) and
\* 0 <= pmin <= pmax <= len(peaks).
C9_RangesOrderedAlways ==
    \A xmin \in Xs, xmax \in Xs :
        LET sel == MapSelection(xmin, xmax, Time, Peaks)
        IN  InBounds(sel, Peaks) /\ Ordered(sel)

\* C9 amended: for any selection the four indices lie within
\* 0..len(timeAxis) and 0..len(peaks); for a selection with tmin <= tmax
\* they are ordered too, tmin_idx <= tmax_idx and pmin <= pmax.
C9_RangesOrderedWhenSelectionIs ==
    \A xmin \in Xs, xmax \in Xs :
        LET sel == MapSelection(xmin, xmax, Time, Peaks)
        IN  InBounds(sel, Peaks) /\ (xmin <= xmax => Ordered(sel))

C9_Witness ==
    /\ IsEdit(last) /\ ~last.inverted /\ last.outcome = "mutated"
    /\ Len(Peaks) >= 2

\* C10: a valid edit with an empty or inverted selection (tmin >= tmax)
\* raises nothing in any mode and is a no-op.
C10_DegenerateSelectionNoop ==
    [][(ValidEdit(last') /\ last'.inverted)
       => (last'.err = "none" /\ last'.outcome = "noop"
           /\ UNCHANGED progVars)]_vars

LastOf(h) == h[Len(h)]
Cats(ed) == <<ed.rejected, ed.deleted, ed.included>>

\* C11: undo() with a top record that is no edit record returns at once: the
\* record stays on the stack and nothing changes, also with edit records
\* below the top.
C11_NonEditTopNoop ==
    (history /= <<>> /\ Top.func \notin Relevant)
    => \A b \in BOOLEAN : UndoStep(Ed, b) = Result(Ed, "noop", "none")

C11_Witness ==
    /\ IsUndo(last) /\ last.outcome = "noop"
    /\ Len(history) >= 2 /\ Top.func \notin Relevant
    /\ history[1].func \in Relevant

\* the step ran undo() / quit()
RanUndo == \E b \in BOOLEAN : Ed' = UndoStep(Ed, b).ed
RanQuit == Closed'

\* C12: ctrl+z and super+d run undo; ctrl+q and super+d run quit.
C12_KeyDispatch ==
    [][/\ (\E b \in BOOLEAN : OnKey("ctrl+z", b)) => RanUndo
       /\ (\E b \in BOOLEAN : OnKey("super+d", b)) => (RanUndo /\ RanQuit)
       /\ (\E b \in BOOLEAN : OnKey("ctrl+q", b)) => RanQuit]_vars

\* C13: a reject or delete with a non-empty peak window takes exactly the
\* peaks p with tmin_idx <= p < tmax_idx, adds them to rejected (reject) or
\* deleted (delete), calls the matching operation with them and leaves the
\* two other sets as they are.
C13_RemoveSelectsWindow ==
    \A xmin \in Xs, xmax \in Xs, reject \in BOOLEAN :
        LET sel   == MapSelection(xmin, xmax, Time, Peaks)
            r     == EditStep(Ed, xmin, xmax, reject, FALSE)
            inWin == {p \in Range(Peaks) : sel.tmin <= p /\ p < sel.tmax}
        IN  sel.pmin < sel.pmax =>
              /\ inWin /= {}
              /\ r.outcome = "mutated"
              /\ Len(r.ed.history) = Len(history) + 1
              /\ LastOf(r.ed.history).func = ServiceOf(reject, FALSE)
              /\ Range(LastOf(r.ed.history).payload) = inWin
              /\ r.ed.rejected = (IF reject THEN rejected \cup inWin ELSE rejected)
              /\ r.ed.deleted = (IF reject THEN deleted ELSE deleted \cup inWin)
              /\ r.ed.included = included

C13_Witness ==
    /\ IsEdit(last) /\ last.kind = "reject_peaks" /\ last.outcome = "mutated"
    /\ rejected /= {} /\ Len(Peaks) >= 1

\* C14: an insert with a non-empty sample window finds the first sample of
\* maximum value in [tmin_idx, tmax_idx); at tmin_idx it is a no-op, else the
\* insert operation is called with that index, which lies strictly inside
\* the window and is added to included.
C14_InsertAtWindowMax ==
    \A xmin \in Xs, xmax \in Xs :
        LET sel == MapSelection(xmin, xmax, Time, Peaks)
            r   == EditStep(Ed, xmin, xmax, FALSE, TRUE)
            win == sel.tmin..(sel.tmax - 1)
            m   == CHOOSE i \in win :
                       /\ \A j \in win : data[j + 1] <= data[i + 1]
                       /\ \A j \in win : j < i => data[j + 1] < data[i + 1]
        IN  sel.tmin < sel.tmax =>
              IF m = sel.tmin
              THEN r = Result(Ed, "noop", "none")
              ELSE /\ r.outcome = "mutated"
                   /\ Len(r.ed.history) = Len(history) + 1
                   /\ LastOf(r.ed.history) = Rec("add_peaks", <<m>>)
                   /\ sel.tmin < m /\ m < sel.tmax
                   /\ Cats(r.ed) = <<rejected, deleted, included \cup {m}>>

C14_Witness ==
    /\ IsEdit(last) /\ last.kind = "add_peaks" /\ last.outcome = "mutated"
    /\ Top = Rec("add_peaks", <<1>>) /\ 1 \in included /\ data[2] = data[3]

\* C15: undo() of a reject record removes the payload from the reject
\* metadata and from rejected, pops the record and leaves the peaks
\* metadata, deleted and included as they are.
C15_UndoReject ==
    (history /= <<>> /\ Top.func = "reject_peaks")
    => \A b \in BOOLEAN :
         LET r == UndoStep(Ed, b)
         IN  /\ r.outcome = "undone"
             /\ Range(r.ed.metaReject) = Range(metaReject) \ Range(Top.payload)
             /\ r.ed.rejected = rejected \ Range(Top.payload)
             /\ r.ed.history = SubSeq(history, 1, Len(history) - 1)
             /\ r.ed.metaPeaks = metaPeaks
             /\ r.ed.deleted = deleted /\ r.ed.included = included

C15_Witness ==
    /\ IsUndo(last) /\ last.kind = "reject_peaks" /\ last.outcome = "undone"
    /\ rejected = {} /\ metaReject = <<>> /\ snaps = <<>>

\* C16: in every state between events the troughs are the Trough
\* Recomputation of the signal and the current peaks.
C16_TroughsConsistent == troughs = CheckTroughs(data, Peaks)

\* C17: every on_edit that passes validation and every undo() that pops a
\* record emits exactly one redraw, which keeps the view bounds; only the
\* initialization emits a redraw that resets them.
C17_OneRedraw ==
    /\ (ValidEdit(last) \/ (IsUndo(last) /\ last.kind /= "none"))
          => last.redraws = <<TRUE>>
    /\ last.op /= "init" => FALSE \notin Range(last.redraws)

\* C18: on_edit calls reject and delete only with a non-empty set of current
\* peaks, and insert only with an index that is no current peak.
C18_ServicePrecondition ==
    \A xmin \in Xs, xmax \in Xs, reject \in BOOLEAN, insert \in BOOLEAN :
        LET r == EditStep(Ed, xmin, xmax, reject, insert)
        IN  r.outcome = "mutated" =>
              LET arg == LastOf(r.ed.history).payload
              IN  IF insert THEN arg[1] \notin Range(Peaks)
                  ELSE arg /= <<>> /\ Range(arg) \subseteq Range(Peaks)

\* C19: whenever an insert record is on top of the stack its index is in
\* included, so no undo() stops after it popped the record and changed the
\* peaks.
C19_UndoAtomic ==
    /\ (history /= <<>> /\ Top.func = "add_peaks") => Top.payload[1] \in included
    /\ last.outcome /= "partial"

====
